---- MODULE Spec2Model ----
(***************************************************************************)
(* Durable workflow engine of mpataki/shop: the Lua runtime                *)
(* (internal/lua/runtime.go) memoizes run()/pause() calls through the      *)
(* executions table, keyed by call index, and exchanges signals with agent *)
(* child processes through files in the workspace.                         *)
(*                                                                         *)
(* One Run is modelled.  The engine process is a step machine whose steps  *)
(* are separated at its durable writes, so that a crash can fall between   *)
(* any two of them.  Agent children are separate processes that survive    *)
(* an engine crash.                                                        *)
(***************************************************************************)
EXTENDS Integers, Sequences, FiniteSets, TLC

\* ------------------------------------------------------------------ bounds
MaxResumes == 1        \* resume invocations of the Run
MaxCrashes == 1        \* deaths of the engine process
MaxHumanWrites == 1    \* times a human (through the agent session) rewrites a signal file
MaxKills == 1          \* kill operations on the Run (CLI or TUI)

\* ------------------------------------------------------- status constants
ExecStatusPending == "pending"
ExecStatusRunning == "running"
ExecStatusComplete == "complete"
ExecStatusFailed == "failed"
ExecStatusWaitingHuman == "waiting_human"

RunStatusPending == "pending"
RunStatusRunning == "running"
RunStatusComplete == "complete"
RunStatusFailed == "failed"
RunStatusStuck == "stuck"
RunStatusWaitingHuman == "waiting_human"

Checkpoint == "_checkpoint"

\* ------------------------------------------------------------------ signals
\* A signal is the content of a signal file, of the output_signal column, or
\* of the Lua table handed to the script.
\*   kind   "nofile": no (parseable) file   "null": JSON null / nil map
\*          "obj": a JSON object
\*   status, reason, message: the string value, or NoStr when absent or
\*          not a string
\*   sid    the _session_id entry, NoStr when absent
\*   by     (history) id of the Execution whose agent wrote it, 0 = human/engine
NoStr == "-"

Sig(kind, status, reason, by) ==
    [kind |-> kind, status |-> status, reason |-> reason, message |-> NoStr,
     sid |-> NoStr, by |-> by]

NoFile == Sig("nofile", NoStr, NoStr, 0)
NullSig == Sig("null", NoStr, NoStr, 0)
ErrorSignal(reason) == Sig("obj", "ERROR", reason, 0)

\* what an agent may leave in its signal file (by is filled in by the writer)
AgentContents ==
    { Sig("obj", "DONE", NoStr, 0),
      Sig("obj", "NEEDS_HUMAN", "why", 0),
      NullSig }

\* what the human-assisted session may leave in an agent's signal file
HumanContents ==
    { Sig("obj", "DONE", NoStr, 0),
      Sig("obj", "NEEDS_HUMAN", "why", 0) }

\* what a checkpoint session may leave in _checkpoint.json
CheckpointContents ==
    { [Sig("obj", "CONTINUE", NoStr, 0) EXCEPT !.message = "note"],
      Sig("obj", "STOP", "window", 0) }

\* ------------------------------------------------------------------ scripts
\* A workflow script is a sequence of API calls.  prot: the call is wrapped
\* in pcall (the base library is open).  onErr: what the script does when
\* run() returns status ERROR, or pause() returns continue = false:
\* "go" on, "ret" (return from workflow), "stuck" (call stuck(reason)).
Step(op, agent, prot, onErr) ==
    [op |-> op, agent |-> agent, prot |-> prot, onErr |-> onErr]

Scripts ==
    [ lin   |-> << Step("run", "x", FALSE, "go"), Step("run", "y", FALSE, "go"),
                   Step("run", "z", FALSE, "go") >>,
      edit  |-> << Step("run", "x", FALSE, "go"), Step("run", "q", FALSE, "go"),
                   Step("run", "z", FALSE, "go") >>,
      twice |-> << Step("run", "x", FALSE, "ret"), Step("run", "x", FALSE, "go") >>,
      prot  |-> << Step("run", "x", TRUE, "go"), Step("run", "y", FALSE, "go") >>,
      gate  |-> << Step("pause", Checkpoint, FALSE, "stuck"),
                   Step("run", "y", FALSE, "go") >>,
      gates |-> << Step("pause", Checkpoint, FALSE, "stuck"),
                   Step("pause", Checkpoint, FALSE, "stuck") >>
    ]

ScriptNames == DOMAIN Scripts

\* the script file may be edited between executions
Edits(s) ==
    CASE s = "lin" -> {"lin", "edit"}
      [] s = "twice" -> {"twice", "gate"}
      [] s = "gate" -> {"gate", "twice"}
      [] OTHER -> {s}

Agents == {"x", "y", "z", "q", Checkpoint}

\* ---------------------------------------------------------------- variables
VARIABLES
    script,      \* name of the script text at the Run's script path
    run,         \* the runs row
    execs,       \* the executions rows of the Run
    nextID,      \* AUTOINCREMENT of executions.id
    files,       \* .agents/signals/{agent}.json
    contextMd,   \* .agents/context.md: the appended sections
    runJson,     \* .shop/run.json
    procs,       \* live agent child processes
    nextPid,     \* next OS pid
    pc,          \* position of the engine process, "off" when there is none
    ip,          \* next step of the script
    err,         \* the workflow function ended by an error
    rt,          \* the Runtime struct
    cur,         \* the frame of the run()/pause() call in progress
    epoch,       \* (history) number of engine executions started
    crashes,     \* (history) number of engine deaths
    humanWrites, \* (history) number of human rewrites
    kills,       \* (history) number of kill operations
    before,      \* (history) the runs row when the engine was last started
    edited,      \* (history) the script text was changed after the first execution
    ended,       \* (history) the Run has entered complete or stuck
    spawned,     \* (history) agent invocations
    returned,    \* (history) values handed to the script
    other,       \* pc, ip, err, rt, cur of a second host process executing
                 \* the same Run, pc "off" when there is none
    orch         \* the locals of Orchestrator.Execute (YAML spec), pc "off"
                 \* when the Run is not a YAML one

durable == <<script, run, execs, nextID, files, contextMd, runJson>>
engine == <<pc, ip, err, rt, cur>>
history == <<epoch, crashes, humanWrites, kills, before, edited, ended, spawned, returned>>
vars == <<script, run, execs, nextID, files, contextMd, runJson, procs, nextPid,
          pc, ip, err, rt, cur, epoch, crashes, humanWrites, kills, before,
          edited, ended, spawned, returned, other, orch>>

\* ------------------------------------------------------------- the records
NewRun ==
    [status |-> RunStatusPending, completedAt |-> FALSE, currentAgent |-> "",
     error |-> "", waitingReason |-> "", waitingSessionID |-> ""]

NoExec ==
    [id |-> 0, callIndex |-> 0, seq |-> 0, agent |-> "", status |-> "",
     signal |-> NullSig, session |-> "", pid |-> 0]

NewRuntime(r) ==
    [run |-> r, callIndex |-> 0, logs |-> {},
     stuckReason |-> "", isStuck |-> FALSE,
     waitingHuman |-> FALSE, waitingReason |-> "", waitingSessionID |-> "",
     waitingAgent |-> "", waitingExecID |-> 0]

NoFrame ==
    [req |-> "", agent |-> "", exec |-> NoExec, via |-> "", path |-> "",
     signal |-> NullSig, sessionID |-> "", pid |-> 0, wrote |-> FALSE,
     found |-> ""]


\* Execute of the YAML orchestrator when it is not running
NoOrch ==
    [pc |-> "off", spec |-> "", currentAgent |-> "", iteration |-> 0,
     previousAgents |-> << >>, exec |-> NoExec, pid |-> 0]

\* a host process that is not there
NoEngine ==
    [pc |-> "off", ip |-> 1, err |-> FALSE, rt |-> NewRuntime(NewRun),
     cur |-> NoFrame]

\* ------------------------------------------------------------------ storage
HasExecution(ci) == \E e \in execs : e.callIndex = ci

GetExecutionByCallIndex(ci) == CHOOSE e \in execs : e.callIndex = ci

\* the rows in sequence_num order are only counted by the runtime
GetExecutionsForRun == execs

\* UNIQUE(run_id, sequence_num) of the schema, and the unique index on
\* (run_id, call_index)
CanCreateExecution(e) ==
    \A f \in execs : f.seq # e.seq /\ f.callIndex # e.callIndex

CreateExecution(E, e, id) == E \cup {[e EXCEPT !.id = id]}

\* UPDATE executions SET claude_session_id, status, output_signal ... WHERE id
UpdateExecution(E, x) ==
    { IF e.id = x.id
        THEN [e EXCEPT !.session = x.session, !.status = x.status,
                       !.signal = x.signal]
        ELSE e : e \in E }

\* (a variant of UpdateExecutionPID that loses the write)
UpdateExecutionPIDLost(E, id, pid) == E

UpdateExecutionPID(E, id, pid) ==
    { IF e.id = id THEN [e EXCEPT !.pid = pid] ELSE e : e \in E }

InvalidateExecutionsAfterIndex(E, n) == { e \in E : e.callIndex <= n }

\* UPDATE runs SET ... WHERE id: the row becomes the caller's struct
UpdateRun(r) == r

\* ---------------------------------------------------------------- workspace
ReadSignal(agent) == files[agent]

ReadSignalOk(agent) == files[agent].kind # "nofile"

WriteSignal(F, agent, signal) == [F EXCEPT ![agent] = signal]

\* one section of context.md (eid: history, the Execution it was appended for)
AppendContext(C, agent, signal, eid) ==
    Append(C, [agent |-> agent, status |-> signal.status, eid |-> eid])

WriteRunMetadata(agent, iteration) ==
    [currentAgent |-> agent, iteration |-> iteration]

\* --------------------------------------------------------- script interface
Program == Scripts[script]

AtCall(op) == pc = "script" /\ ip <= Len(Program) /\ Program[ip].op = op

\* signalToTable: a nil map gives an empty table
signalToTable(signal) ==
    IF signal.kind = "null" THEN Sig("obj", NoStr, NoStr, signal.by) ELSE signal

\* (a variant of pauseResultFromSignal that takes every decision for CONTINUE)
pauseResultAlwaysContinue(signal) ==
    [continue |-> signal.status \in {"CONTINUE", "STOP"},
     reason |-> signal.reason, message |-> signal.message]

\* (a variant of pauseResultFromSignal that leaves the message out)
pauseResultWithoutMessage(signal) ==
    [continue |-> signal.status = "CONTINUE",
     reason |-> signal.reason, message |-> NoStr]

\* pauseResultFromSignal: {continue, reason?, message?}
pauseResultFromSignal(signal) ==
    [continue |-> signal.status = "CONTINUE",
     reason |-> signal.reason, message |-> signal.message]

\* the script after the API call at ip returned: r is the Runtime as the
\* call left it, bad says the script takes its onErr branch
AfterReturn(r, bad, reason) ==
    LET st == Program[ip] IN
    IF bad /\ st.onErr = "ret"
      THEN [pc |-> "done", ip |-> ip, err |-> FALSE, rt |-> r]
    ELSE IF bad /\ st.onErr = "stuck"
      THEN \* luaStuck
           [pc |-> "done", ip |-> ip, err |-> TRUE,
            rt |-> [r EXCEPT !.isStuck = TRUE,
                             !.stuckReason = IF reason = NoStr THEN "workflow stuck"
                                             ELSE reason]]
    ELSE [pc |-> "script", ip |-> ip + 1, err |-> FALSE, rt |-> r]

\* the script after the API call at ip raised an error (L.RaiseError, or a
\* Go panic turned into an error): pcall catches it, otherwise it unwinds
\* the workflow function
AfterRaise(r) ==
    IF Program[ip].prot
      THEN [pc |-> "script", ip |-> ip + 1, err |-> FALSE, rt |-> r]
      ELSE [pc |-> "done", ip |-> ip, err |-> TRUE, rt |-> r]

Control(c) ==
    /\ pc' = c.pc
    /\ ip' = c.ip
    /\ err' = c.err
    /\ rt' = c.rt
    /\ cur' = NoFrame

NoResult == [continue |-> FALSE, reason |-> NoStr, message |-> NoStr]

\* luaRun pushes the table and returns 1
PushSignal(r, signal, how, found) ==
    LET tbl == signalToTable(signal) IN
    /\ Control(AfterReturn(r, tbl.status = "ERROR", tbl.reason))
    /\ returned' = returned \cup
          {[epoch |-> epoch, ci |-> r.callIndex, op |-> "run", how |-> how,
            found |-> found, val |-> tbl, result |-> NoResult]}

\* luaPause pushes the pause result and returns 1
PushPauseResult(r, signal, how, found) ==
    LET tbl == pauseResultFromSignal(signal) IN
    /\ Control(AfterReturn(r, ~tbl.continue, tbl.reason))
    /\ returned' = returned \cup
          {[epoch |-> epoch, ci |-> r.callIndex, op |-> "pause", how |-> how,
            found |-> found, val |-> signal, result |-> tbl]}

\* (a variant of Diverge that keeps the record of the diverging call)
DivergeKeepsRecord(r, exec, agent) ==
    /\ execs' = InvalidateExecutionsAfterIndex(execs, r.callIndex)
    /\ rt' = [r EXCEPT !.logs = @ \cup
                 {[ci |-> r.callIndex, expected |-> exec.agent, got |-> agent]}]
    /\ pc' = "fresh"
    /\ cur' = [NoFrame EXCEPT !.req = agent, !.agent = agent,
                              !.via = "diverged", !.path = "run"]
    /\ UNCHANGED <<ip, err, returned>>

\* luaRun lines 202-213: the record found belongs to another agent
Diverge(r, exec, agent) ==
    /\ execs' = InvalidateExecutionsAfterIndex(execs, r.callIndex - 1)
    /\ rt' = [r EXCEPT !.logs = @ \cup
                 {[ci |-> r.callIndex, expected |-> exec.agent, got |-> agent]}]
    /\ pc' = "fresh"
    /\ cur' = [NoFrame EXCEPT !.req = agent, !.agent = agent,
                              !.via = "diverged", !.path = "run"]
    /\ UNCHANGED <<ip, err, returned>>

\* --------------------------------------------------------------------- Init
Init ==
    /\ script \in ScriptNames
    /\ run = NewRun
    /\ execs = {}
    /\ nextID = 1
    /\ files = [a \in Agents |-> NoFile]
    /\ contextMd = << >>
    /\ runJson = WriteRunMetadata("", 0)
    /\ procs = {}
    /\ nextPid = 1
    /\ pc = "off"
    /\ ip = 1
    /\ err = FALSE
    /\ rt = NewRuntime(NewRun)
    /\ cur = NoFrame
    /\ epoch = 0
    /\ crashes = 0
    /\ humanWrites = 0
    /\ kills = 0
    /\ before = NewRun
    /\ edited = FALSE
    /\ ended = FALSE
    /\ spawned = {}
    /\ returned = {}
    /\ other = NoEngine
    /\ orch = NoOrch

\* ------------------------------------------------------ starting the engine
\* the engine process loads the Run, marks it running and calls
\* Runtime.Execute on a fresh Runtime (callIndex 0)
StartEngine(r) ==
    /\ run' = UpdateRun(r)
    /\ pc' = "script"
    /\ ip' = 1
    /\ err' = FALSE
    /\ rt' = NewRuntime(r)
    /\ cur' = NoFrame
    /\ epoch' = epoch + 1
    /\ before' = run

ExecuteLua ==
    /\ pc = "off"
    /\ epoch = 0
    /\ StartEngine([run EXCEPT !.status = RunStatusRunning])
    /\ UNCHANGED <<script, execs, nextID, files, contextMd, runJson, procs, nextPid,
                   crashes, humanWrites, kills, edited, ended, spawned, returned>>
    /\ UNCHANGED <<other, orch>>

ResumeLuaRun ==
    /\ pc = "off"
    /\ epoch >= 1
    /\ epoch <= MaxResumes
    /\ script' \in Edits(script)
    /\ edited' = (edited \/ script' # script)
    /\ StartEngine([run EXCEPT !.status = RunStatusRunning, !.completedAt = FALSE])
    /\ UNCHANGED <<execs, nextID, files, contextMd, runJson, procs, nextPid,
                   crashes, humanWrites, kills, ended, spawned, returned>>
    /\ UNCHANGED <<other, orch>>

\* ------------------------------------------------------------------- luaRun
\* (a variant of NeedsRecovery that forgets the running records)
NeedsRecoveryWaitingOnly(exec) == exec.status = ExecStatusWaitingHuman

\* (a variant of NeedsRecovery that forgets the waiting_human records)
NeedsRecoveryRunningOnly(exec) == exec.status = ExecStatusRunning

\* the record may have finished while the engine was away
NeedsRecovery(exec) ==
    exec.status \in {ExecStatusRunning, ExecStatusWaitingHuman}

\* (a variant of LuaRunCached that appends the cached signal to context.md again)
LuaRunCachedAppends ==
    /\ AtCall("run")
    /\ HasExecution(rt.callIndex + 1)
    /\ LET exec == GetExecutionByCallIndex(rt.callIndex + 1)
           r == [rt EXCEPT !.callIndex = @ + 1]
           signal == IF exec.signal.kind = "null"
                       THEN ErrorSignal("no signal in cache")
                       ELSE exec.signal
       IN /\ exec.status = ExecStatusComplete
          /\ exec.agent = Program[ip].agent
          /\ PushSignal(r, signal, "cached", ExecStatusComplete)
          /\ contextMd' = AppendContext(contextMd, exec.agent, signal, exec.id)
    /\ UNCHANGED <<script, run, execs, nextID, files, runJson, procs, nextPid,
                   epoch, crashes, humanWrites, kills, before, edited, ended, spawned>>
    /\ UNCHANGED <<other, orch>>

\* record complete, same agent: the cached signal goes to the script
LuaRunCached ==
    /\ AtCall("run")
    /\ HasExecution(rt.callIndex + 1)
    /\ LET exec == GetExecutionByCallIndex(rt.callIndex + 1)
           r == [rt EXCEPT !.callIndex = @ + 1]
           signal == IF exec.signal.kind = "null"
                       THEN ErrorSignal("no signal in cache")
                       ELSE exec.signal
       IN /\ exec.status = ExecStatusComplete
          /\ exec.agent = Program[ip].agent
          /\ PushSignal(r, signal, "cached", ExecStatusComplete)
    /\ UNCHANGED <<durable, procs, nextPid, epoch, crashes, humanWrites, kills, before, edited, ended, spawned>>
    /\ UNCHANGED <<other, orch>>

\* record complete, other agent: divergence
LuaRunCachedDiverged ==
    /\ AtCall("run")
    /\ HasExecution(rt.callIndex + 1)
    /\ LET exec == GetExecutionByCallIndex(rt.callIndex + 1)
           r == [rt EXCEPT !.callIndex = @ + 1]
       IN /\ exec.status = ExecStatusComplete
          /\ exec.agent # Program[ip].agent
          /\ Diverge(r, exec, Program[ip].agent)
    /\ UNCHANGED <<script, run, nextID, files, contextMd, runJson, procs, nextPid,
                   epoch, crashes, humanWrites, kills, before, edited, ended, spawned>>
    /\ UNCHANGED <<other, orch>>

\* record running or waiting_human: recoverExecution, up to its first write
LuaRunRecover ==
    /\ AtCall("run")
    /\ HasExecution(rt.callIndex + 1)
    /\ LET exec == GetExecutionByCallIndex(rt.callIndex + 1)
           r == [rt EXCEPT !.callIndex = @ + 1]
           signal == ReadSignal(exec.agent)
           frame == [NoFrame EXCEPT !.req = Program[ip].agent, !.agent = exec.agent,
                                    !.exec = exec, !.via = "exist",
                                    !.found = exec.status]
       IN /\ NeedsRecovery(exec)
          /\ IF ReadSignalOk(exec.agent) /\ signal.status = "NEEDS_HUMAN"
               THEN \* still waiting: suspend again
                    /\ Control(AfterRaise(
                         [r EXCEPT !.waitingHuman = TRUE,
                                   !.waitingSessionID = exec.session,
                                   !.waitingAgent = exec.agent,
                                   !.waitingExecID = exec.id,
                                   !.waitingReason =
                                       IF signal.reason # NoStr THEN signal.reason
                                       ELSE "Agent needs human input"]))
                    /\ UNCHANGED execs
             ELSE IF ReadSignalOk(exec.agent)
               THEN \* the agent completed: finalize the record
                    LET x == [exec EXCEPT !.signal = signal,
                                          !.status = ExecStatusComplete]
                    IN /\ execs' = UpdateExecution(execs, x)
                       /\ cur' = [frame EXCEPT !.exec = x, !.signal = signal,
                                               !.path = "recover"]
                       /\ pc' = "finalized"
                       /\ rt' = r
                       /\ UNCHANGED <<ip, err>>
             ELSE \* no signal: re-run with the same record
                    /\ cur' = [frame EXCEPT !.path = "run"]
                    /\ pc' = "start"
                    /\ rt' = r
                    /\ UNCHANGED <<ip, err, execs>>
    /\ UNCHANGED <<script, run, nextID, files, contextMd, runJson, procs, nextPid,
                   history>>
    /\ UNCHANGED <<other, orch>>

\* (a variant of LuaRunRetry that starts over with a fresh record)
LuaRunRetryFresh ==
    /\ AtCall("run")
    /\ HasExecution(rt.callIndex + 1)
    /\ LET exec == GetExecutionByCallIndex(rt.callIndex + 1)
       IN /\ exec.status # ExecStatusComplete
          /\ ~NeedsRecovery(exec)
          /\ cur' = [NoFrame EXCEPT !.req = Program[ip].agent,
                                    !.agent = Program[ip].agent,
                                    !.via = "none", !.path = "run"]
    /\ rt' = [rt EXCEPT !.callIndex = @ + 1]
    /\ pc' = "fresh"
    /\ UNCHANGED <<durable, procs, nextPid, ip, err, history>>
    /\ UNCHANGED <<other, orch>>

\* any other record (failed, pending): runAgent on the same record
LuaRunRetry ==
    /\ AtCall("run")
    /\ HasExecution(rt.callIndex + 1)
    /\ LET exec == GetExecutionByCallIndex(rt.callIndex + 1)
       IN /\ exec.status # ExecStatusComplete
          /\ ~NeedsRecovery(exec)
          /\ cur' = [NoFrame EXCEPT !.req = Program[ip].agent,
                                    !.agent = Program[ip].agent,
                                    !.exec = exec, !.via = "exist", !.path = "run",
                                    !.found = exec.status]
    /\ rt' = [rt EXCEPT !.callIndex = @ + 1]
    /\ pc' = "start"
    /\ UNCHANGED <<durable, procs, nextPid, ip, err, history>>
    /\ UNCHANGED <<other, orch>>

\* no record: run fresh
LuaRunFresh ==
    /\ AtCall("run")
    /\ ~HasExecution(rt.callIndex + 1)
    /\ rt' = [rt EXCEPT !.callIndex = @ + 1]
    /\ cur' = [NoFrame EXCEPT !.req = Program[ip].agent, !.agent = Program[ip].agent,
                              !.via = "none", !.path = "run"]
    /\ pc' = "fresh"
    /\ UNCHANGED <<durable, procs, nextPid, ip, err, history>>
    /\ UNCHANGED <<other, orch>>

\* (a variant of NewExecution that numbers the call one too high)
NewExecutionOffByOne(agent, ci) ==
    [NoExec EXCEPT !.agent = agent, !.status = ExecStatusPending,
                   !.seq = Cardinality(GetExecutionsForRun) + 1,
                   !.callIndex = ci + 1]

\* the record runAgentFresh and runCheckpoint build
NewExecution(agent, ci) ==
    [NoExec EXCEPT !.agent = agent, !.status = ExecStatusPending,
                   !.seq = Cardinality(GetExecutionsForRun) + 1,
                   !.callIndex = ci]

\* runAgentFresh, runCheckpoint lines 638-659: append the pending record
runAgentFresh ==
    /\ pc = "fresh"
    /\ LET exec == NewExecution(cur.agent, rt.callIndex)
       IN IF CanCreateExecution(exec)
            THEN /\ execs' = CreateExecution(execs, exec, nextID)
                 /\ nextID' = nextID + 1
                 /\ cur' = [cur EXCEPT !.exec = [exec EXCEPT !.id = nextID]]
                 /\ pc' = "start"
                 /\ UNCHANGED <<ip, err, rt>>
            ELSE \* "failed to run agent"
                 /\ Control(AfterRaise(rt))
                 /\ UNCHANGED <<execs, nextID>>
    /\ UNCHANGED <<script, run, files, contextMd, runJson, procs, nextPid, history>>
    /\ UNCHANGED <<other, orch>>


\* ----------------------------------------------------------------- luaPause
CheckpointMessage == "deploy?"

\* record complete: the cached result goes to the script
LuaPauseCached ==
    /\ AtCall("pause")
    /\ HasExecution(rt.callIndex + 1)
    /\ LET exec == GetExecutionByCallIndex(rt.callIndex + 1)
           r == [rt EXCEPT !.callIndex = @ + 1]
       IN /\ exec.status = ExecStatusComplete
          /\ PushPauseResult(r, exec.signal, "cached", ExecStatusComplete)
    /\ UNCHANGED <<durable, procs, nextPid, epoch, crashes, humanWrites, kills, before, edited, ended, spawned>>
    /\ UNCHANGED <<other, orch>>

\* record waiting_human: has the checkpoint signal changed?
LuaPauseWaiting ==
    /\ AtCall("pause")
    /\ HasExecution(rt.callIndex + 1)
    /\ LET exec == GetExecutionByCallIndex(rt.callIndex + 1)
           r == [rt EXCEPT !.callIndex = @ + 1]
           signal == ReadSignal(Checkpoint)
       IN /\ exec.status = ExecStatusWaitingHuman
          /\ IF /\ ReadSignalOk(Checkpoint)
                /\ signal.status # NoStr
                /\ signal.status # "NEEDS_HUMAN"
               THEN /\ execs' = UpdateExecution(execs,
                                   [exec EXCEPT !.signal = signal,
                                                !.status = ExecStatusComplete])
                    /\ PushPauseResult(r, signal, "recovered", ExecStatusWaitingHuman)
               ELSE /\ Control(AfterRaise(
                         [r EXCEPT !.waitingHuman = TRUE,
                                   !.waitingSessionID = exec.session,
                                   !.waitingAgent = Checkpoint,
                                   !.waitingExecID = exec.id,
                                   !.waitingReason = CheckpointMessage]))
                    /\ UNCHANGED <<execs, returned>>
    /\ UNCHANGED <<script, run, nextID, files, contextMd, runJson, procs, nextPid,
                   epoch, crashes, humanWrites, kills, before, edited, ended, spawned>>
    /\ UNCHANGED <<other, orch>>

\* no record, or one that is neither complete nor waiting_human: runCheckpoint
LuaPauseFresh ==
    /\ AtCall("pause")
    /\ HasExecution(rt.callIndex + 1) =>
          GetExecutionByCallIndex(rt.callIndex + 1).status \notin
              {ExecStatusComplete, ExecStatusWaitingHuman}
    /\ rt' = [rt EXCEPT !.callIndex = @ + 1]
    /\ cur' = [NoFrame EXCEPT !.req = Checkpoint, !.agent = Checkpoint,
                              !.via = "pause", !.path = "checkpoint"]
    /\ pc' = "fresh"
    /\ UNCHANGED <<durable, procs, nextPid, ip, err, history>>
    /\ UNCHANGED <<other, orch>>

\* runCheckpoint lines 716-745 with the signal in hand
CheckpointFinish(signal) ==
    IF signal.status = "NEEDS_HUMAN"
      THEN /\ execs' = UpdateExecution(execs,
                          [cur.exec EXCEPT !.session = cur.sessionID,
                                           !.status = ExecStatusWaitingHuman])
           /\ Control(AfterRaise(
                [rt EXCEPT !.waitingHuman = TRUE,
                           !.waitingSessionID = cur.sessionID,
                           !.waitingAgent = Checkpoint,
                           !.waitingExecID = cur.exec.id,
                           !.waitingReason = CheckpointMessage]))
           /\ UNCHANGED returned
      ELSE /\ execs' = UpdateExecution(execs,
                          [cur.exec EXCEPT !.session = cur.sessionID,
                                           !.signal = signal,
                                           !.status = ExecStatusComplete])
           /\ PushPauseResult(rt, signal, "ran", cur.found)

\* runCheckpoint lines 703-714: read the signal, write NEEDS_HUMAN if none
runCheckpointRead ==
    /\ pc = "exited"
    /\ cur.path = "checkpoint"
    /\ IF ~ReadSignalOk(Checkpoint)
         THEN LET signal == Sig("obj", "NEEDS_HUMAN", CheckpointMessage, 0)
              IN /\ files' = WriteSignal(files, Checkpoint, signal)
                 /\ cur' = [cur EXCEPT !.signal = signal]
                 /\ pc' = "cpread"
                 /\ UNCHANGED <<execs, ip, err, rt, returned>>
         ELSE /\ CheckpointFinish(ReadSignal(Checkpoint))
              /\ UNCHANGED files
    /\ UNCHANGED <<script, run, nextID, contextMd, runJson, procs, nextPid,
                   epoch, crashes, humanWrites, kills, before, edited, ended, spawned>>
    /\ UNCHANGED <<other, orch>>

runCheckpointFinish ==
    /\ pc = "cpread"
    /\ CheckpointFinish(cur.signal)
    /\ UNCHANGED <<script, run, nextID, files, contextMd, runJson, procs, nextPid,
                   epoch, crashes, humanWrites, kills, before, edited, ended, spawned>>
    /\ UNCHANGED <<other, orch>>

\* ----------------------------------------------------------------- runAgent
\* the process group of the engine process; exec.Command without SysProcAttr
\* starts the child in the group of its parent (pids of children start at 1)
EnginePgid == 0

\* runAgent lines 264-293: current agent, scratchpad, run.json, record running
\* (runCheckpoint lines 661-690 are the same steps)
runAgentStart ==
    /\ pc = "start"
    /\ LET r == [rt EXCEPT !.run.currentAgent = cur.agent]
           x == [cur.exec EXCEPT !.status = ExecStatusRunning]
       IN /\ rt' = r
          /\ run' = UpdateRun(r.run)
          /\ runJson' = WriteRunMetadata(cur.agent, rt.callIndex)
          /\ execs' = UpdateExecution(execs, x)
          /\ cur' = [cur EXCEPT !.exec = x]
    /\ pc' = "launch"
    /\ UNCHANGED <<script, nextID, files, contextMd, procs, nextPid, ip, err, history>>
    /\ UNCHANGED <<other, orch>>

\* runClaude: cmd.Start succeeds, the PID is stored, the engine blocks
runClaudeStart ==
    /\ pc = "launch"
    /\ procs' = procs \cup {[pid |-> nextPid, pgid |-> EnginePgid,
                             agent |-> cur.agent, eid |-> cur.exec.id,
                             wrote |-> FALSE]}
    /\ nextPid' = nextPid + 1
    /\ execs' = UpdateExecutionPID(execs, cur.exec.id, nextPid)
    /\ cur' = [cur EXCEPT !.pid = nextPid]
    /\ spawned' = spawned \cup {[epoch |-> epoch, ci |-> rt.callIndex,
                                 agent |-> cur.agent, eid |-> cur.exec.id,
                                 pid |-> nextPid]}
    /\ pc' = "agent"
    /\ UNCHANGED <<script, run, nextID, files, contextMd, runJson, ip, err, rt,
                   epoch, crashes, humanWrites, kills, before, edited, ended, returned>>
    /\ UNCHANGED <<other, orch>>

\* (a variant of runClaudeFail that raises the launch error in run() as well)
runClaudeFailRaises ==
    /\ pc = "launch"
    /\ execs' = UpdateExecution(execs, [cur.exec EXCEPT !.status = ExecStatusFailed])
    /\ Control(AfterRaise(rt))
    /\ UNCHANGED <<script, run, nextID, files, contextMd, runJson, procs, nextPid,
                   history>>
    /\ UNCHANGED <<other, orch>>

\* runClaude returns an error: the child could not be launched
runClaudeFail ==
    /\ pc = "launch"
    /\ LET x == [cur.exec EXCEPT !.status = ExecStatusFailed]
       IN /\ execs' = UpdateExecution(execs, x)
          /\ IF cur.path = "checkpoint"
               THEN \* runCheckpoint returns the error, luaPause raises it
                    Control(AfterRaise(rt))
               ELSE /\ cur' = [cur EXCEPT !.exec = x,
                                 !.signal = ErrorSignal("agent execution failed")]
                    /\ pc' = "post"
                    /\ UNCHANGED <<ip, err, rt>>
    /\ UNCHANGED <<script, run, nextID, files, contextMd, runJson, procs, nextPid,
                   history>>
    /\ UNCHANGED <<other, orch>>

\* ------------------------------------------------------------ agent children
\* a live child writes its signal file (at most once)
AgentWrite ==
    \E p \in procs :
      /\ ~p.wrote
      /\ \E c \in (IF p.agent = Checkpoint THEN CheckpointContents ELSE AgentContents) :
           files' = WriteSignal(files, p.agent, [c EXCEPT !.by = p.eid])
      /\ procs' = (procs \ {p}) \cup {[p EXCEPT !.wrote = TRUE]}
      /\ UNCHANGED <<script, run, execs, nextID, contextMd, runJson, nextPid,
                     engine, history, other, orch>>

\* a child exits; the engine blocked on it (io.ReadAll, cmd.Wait) goes on,
\* be it the host process in view or the one beside it
AgentExit ==
    \E p \in procs :
      /\ procs' = procs \ {p}
      /\ IF pc = "agent" /\ cur.pid = p.pid
           THEN /\ pc' = "exited"
                /\ cur' = [cur EXCEPT !.sessionID = "sess", !.wrote = p.wrote]
                /\ UNCHANGED other
         ELSE IF other.pc = "agent" /\ other.cur.pid = p.pid
           THEN /\ other' = [other EXCEPT !.pc = "exited",
                                          !.cur.sessionID = "sess",
                                          !.cur.wrote = p.wrote]
                /\ UNCHANGED <<pc, cur>>
           ELSE UNCHANGED <<pc, cur, other>>
      /\ UNCHANGED <<durable, nextPid, ip, err, rt, history, orch>>

\* runAgent lines 306-323: read the signal, store the result
runAgentRead ==
    /\ pc = "exited"
    /\ cur.path = "run"
    /\ IF ~ReadSignalOk(cur.agent)
         THEN LET x == [cur.exec EXCEPT !.status = ExecStatusFailed]
              IN /\ execs' = UpdateExecution(execs, x)
                 /\ cur' = [cur EXCEPT !.exec = x,
                                       !.signal = ErrorSignal("no signal produced")]
                 /\ pc' = "post"
         ELSE LET signal == ReadSignal(cur.agent)
                  x == [cur.exec EXCEPT !.session = cur.sessionID,
                                        !.signal = signal,
                                        !.status = ExecStatusComplete]
              IN /\ execs' = UpdateExecution(execs, x)
                 /\ cur' = [cur EXCEPT !.exec = x, !.signal = signal]
                 /\ pc' = "finalized"
    /\ UNCHANGED <<script, run, nextID, files, contextMd, runJson, procs, nextPid,
                   ip, err, rt, history>>
    /\ UNCHANGED <<other, orch>>

\* runAgent lines 325-357 after the record was stored complete;
\* recoverExecution lines 390-395 likewise
runAgentFinish ==
    /\ pc = "finalized"
    /\ IF cur.path = "run" /\ cur.signal.status = "NEEDS_HUMAN"
         THEN LET x == [cur.exec EXCEPT !.status = ExecStatusWaitingHuman]
              IN /\ execs' = UpdateExecution(execs, x)
                 /\ Control(AfterRaise(
                      [rt EXCEPT !.waitingHuman = TRUE,
                                 !.waitingSessionID = cur.sessionID,
                                 !.waitingAgent = cur.agent,
                                 !.waitingExecID = cur.exec.id,
                                 !.waitingReason =
                                     IF cur.signal.reason # NoStr
                                       THEN cur.signal.reason
                                       ELSE "Agent needs human input"]))
                 /\ UNCHANGED contextMd
         ELSE /\ contextMd' = AppendContext(contextMd, cur.agent, cur.signal,
                                            cur.exec.id)
              /\ UNCHANGED execs
              /\ IF cur.path = "run" /\ cur.signal.kind = "null"
                   THEN \* signal["_session_id"] = ... on a nil map panics
                        Control(AfterRaise(rt))
                   ELSE /\ cur' = [cur EXCEPT !.signal =
                                     IF cur.path = "run"
                                       THEN [cur.signal EXCEPT !.sid = cur.sessionID]
                                       ELSE cur.signal]
                        /\ pc' = "post"
                        /\ UNCHANGED <<ip, err, rt>>
    /\ UNCHANGED <<script, run, nextID, files, runJson, procs, nextPid, history>>
    /\ UNCHANGED <<other, orch>>

\* luaRun lines 202-231 once runAgent / recoverExecution returned a signal
LuaRunPost ==
    /\ pc = "post"
    /\ IF cur.via = "exist" /\ cur.exec.agent # cur.req
         THEN /\ Diverge(rt, cur.exec, cur.req)
         ELSE /\ PushSignal(rt, cur.signal,
                            IF cur.path = "recover" THEN "recovered" ELSE "ran",
                            cur.found)
              /\ UNCHANGED execs
    /\ UNCHANGED <<script, run, nextID, files, contextMd, runJson, procs, nextPid,
                   epoch, crashes, humanWrites, kills, before, edited, ended, spawned>>
    /\ UNCHANGED <<other, orch>>

\* ------------------------------------------------------------ end of Execute
\* the workflow function returns
WorkflowReturn ==
    /\ pc = "script"
    /\ ip > Len(Program)
    /\ pc' = "done"
    /\ UNCHANGED <<durable, procs, nextPid, ip, err, rt, cur, history>>
    /\ UNCHANGED <<other, orch>>

markComplete(r) == [r EXCEPT !.status = RunStatusComplete, !.completedAt = TRUE]

\* (a variant of markStuck that does not store the reason)
markStuckNoError(r, reason) ==
    [r EXCEPT !.status = RunStatusStuck, !.completedAt = TRUE]

markStuck(r, reason) ==
    [r EXCEPT !.status = RunStatusStuck, !.completedAt = TRUE, !.error = reason]

markWaitingHuman(r, t) ==
    [r EXCEPT !.status = RunStatusWaitingHuman,
              !.waitingReason = t.waitingReason,
              !.waitingSessionID = t.waitingSessionID,
              !.currentAgent = t.waitingAgent]

\* the caller of Execute stores a script error on the Run
failRun(r, reason) ==
    [r EXCEPT !.status = RunStatusFailed, !.completedAt = TRUE, !.error = reason]

\* Execute lines 87-110 after PCall, and the engine process ends
ExecuteFinish ==
    /\ pc = "done"
    /\ run' = UpdateRun(
         IF rt.isStuck THEN markStuck(rt.run, rt.stuckReason)
         ELSE IF rt.waitingHuman THEN markWaitingHuman(rt.run, rt)
         ELSE IF err THEN failRun(rt.run, "workflow execution failed")
         ELSE markComplete(rt.run))
    /\ ended' = (ended \/ run'.status \in {RunStatusComplete, RunStatusStuck})
    /\ pc' = "off"
    /\ ip' = 1
    /\ err' = FALSE
    /\ rt' = NewRuntime(NewRun)
    /\ cur' = NoFrame
    /\ UNCHANGED <<script, execs, nextID, files, contextMd, runJson, procs, nextPid,
                   epoch, crashes, humanWrites, kills, before, edited, spawned, returned>>
    /\ UNCHANGED <<other, orch>>

\* the engine process dies
Crash ==
    /\ pc # "off"
    /\ crashes < MaxCrashes
    /\ crashes' = crashes + 1
    /\ pc' = "off"
    /\ ip' = 1
    /\ err' = FALSE
    /\ rt' = NewRuntime(NewRun)
    /\ cur' = NoFrame
    /\ UNCHANGED <<durable, procs, nextPid, epoch, humanWrites, kills, before, edited,
                   ended, spawned, returned>>
    /\ UNCHANGED <<other, orch>>

\* the human, in the waiting agent's session, has the signal file rewritten
HumanWrite ==
    /\ pc = "off"
    /\ run.status = RunStatusWaitingHuman
    /\ humanWrites < MaxHumanWrites
    /\ run.currentAgent \in Agents
    /\ \E c \in (IF run.currentAgent = Checkpoint THEN CheckpointContents
                 ELSE HumanContents) :
         files' = WriteSignal(files, run.currentAgent, c)
    /\ humanWrites' = humanWrites + 1
    /\ UNCHANGED <<script, run, execs, nextID, contextMd, runJson, procs, nextPid,
                   engine, epoch, crashes, kills, before, edited, ended, spawned,
                   returned>>
    /\ UNCHANGED <<other, orch>>

\* --------------------------------------------------------------------- kill
HasRunningExecution == \E e \in execs : e.status = ExecStatusRunning

\* the first running row in sequence_num order
GetRunningExecutionForRun ==
    CHOOSE e \in execs :
      /\ e.status = ExecStatusRunning
      /\ \A f \in execs : f.status = ExecStatusRunning => e.seq <= f.seq

\* syscall.Kill(-pid, SIGKILL): the processes of the group pid die
KillGroup(P, pid) == { p \in P : p.pgid # pid }

\* both kill paths: signal the group of the running record's PID and mark the
\* record failed; an engine blocked on a child that died goes on, runClaude
\* finding no session id in the output
KillRunningExecution ==
    IF HasRunningExecution /\ GetRunningExecutionForRun.pid # 0
      THEN LET x == GetRunningExecutionForRun
           IN /\ procs' = KillGroup(procs, x.pid)
              /\ execs' = UpdateExecution(execs,
                             [x EXCEPT !.status = ExecStatusFailed])
              /\ IF pc = "agent" /\ \E p \in procs : p.pid = cur.pid /\ p.pgid = x.pid
                   THEN /\ pc' = "exited"
                        /\ cur' = [cur EXCEPT !.sessionID = "",
                              !.wrote = (CHOOSE p \in procs : p.pid = cur.pid).wrote]
                   ELSE UNCHANGED <<pc, cur>>
      ELSE UNCHANGED <<procs, execs, pc, cur>>

\* Orchestrator.KillRun (shop kill): the Run becomes failed, with a
\* completion timestamp
KillRun ==
    /\ epoch >= 1
    /\ kills < MaxKills
    /\ KillRunningExecution
    /\ run' = UpdateRun([run EXCEPT !.status = RunStatusFailed, !.completedAt = TRUE])
    /\ kills' = kills + 1
    /\ UNCHANGED <<script, nextID, files, contextMd, runJson, nextPid, ip, err, rt,
                   epoch, crashes, humanWrites, before, edited, ended, spawned,
                   returned>>
    /\ UNCHANGED <<other, orch>>

\* App.killRun (key x of the TUI): the Run becomes failed, its other columns
\* stay as loaded
killRun ==
    /\ epoch >= 1
    /\ kills < MaxKills
    /\ KillRunningExecution
    /\ run' = UpdateRun([run EXCEPT !.status = RunStatusFailed])
    /\ kills' = kills + 1
    /\ UNCHANGED <<script, nextID, files, contextMd, runJson, nextPid, ip, err, rt,
                   epoch, crashes, humanWrites, before, edited, ended, spawned,
                   returned>>
    /\ UNCHANGED <<other, orch>>

Next ==
    \/ ExecuteLua
    \/ ResumeLuaRun
    \/ LuaRunCached
    \/ LuaRunCachedDiverged
    \/ LuaRunRecover
    \/ LuaRunRetry
    \/ LuaRunFresh
    \/ LuaPauseCached
    \/ LuaPauseWaiting
    \/ LuaPauseFresh
    \/ runCheckpointRead
    \/ runCheckpointFinish
    \/ runAgentFresh
    \/ runAgentStart
    \/ runClaudeStart
    \/ runClaudeFail
    \/ AgentWrite
    \/ AgentExit
    \/ runAgentRead
    \/ runAgentFinish
    \/ LuaRunPost
    \/ WorkflowReturn
    \/ ExecuteFinish
    \/ Crash
    \/ HumanWrite
    \/ KillRun
    \/ killRun

Spec == Init /\ [][Next]_vars

\* ------------------------------------------- two host processes on one Run
\* Every shop run / shop resume invocation is a host process of its own, and
\* shop resume asks neither for the Run's status nor for a live engine: a
\* second process may start executing the Run while the first is at work.
\* The process in view is the one whose step is taken; the other rests in
\* `other`.
InView == [pc |-> pc, ip |-> ip, err |-> err, rt |-> rt, cur |-> cur]

\* shop resume while an engine is executing the Run: ResumeLuaRun in a new
\* process (the script file is left as it is)
ResumeLuaRunBeside ==
    /\ pc # "off"
    /\ other.pc = "off"
    /\ epoch >= 1
    /\ epoch <= MaxResumes
    /\ other' = InView
    /\ StartEngine([run EXCEPT !.status = RunStatusRunning, !.completedAt = FALSE])
    /\ UNCHANGED <<script, execs, nextID, files, contextMd, runJson, procs, nextPid,
                   crashes, humanWrites, kills, edited, ended, spawned, returned,
                   orch>>

\* the operating system lets the other process take the next step
Schedule ==
    /\ other.pc # "off"
    /\ pc' = other.pc
    /\ ip' = other.ip
    /\ err' = other.err
    /\ rt' = other.rt
    /\ cur' = other.cur
    /\ other' = InView
    /\ UNCHANGED <<durable, procs, nextPid, history, orch>>

\* shop run, then shop resume beside it; no crash, no kill, no human session
NextTwo ==
    \/ ExecuteLua
    \/ ResumeLuaRunBeside
    \/ Schedule
    \/ LuaRunCached
    \/ LuaRunRecover
    \/ LuaRunRetry
    \/ LuaRunFresh
    \/ LuaPauseCached
    \/ LuaPauseWaiting
    \/ LuaPauseFresh
    \/ runCheckpointRead
    \/ runCheckpointFinish
    \/ runAgentFresh
    \/ runAgentStart
    \/ runClaudeStart
    \/ runClaudeFail
    \/ AgentWrite
    \/ AgentExit
    \/ runAgentRead
    \/ runAgentFinish
    \/ LuaRunPost
    \/ WorkflowReturn
    \/ ExecuteFinish

\* the scripts run by two processes: pause() then run(), and run() twice
InitTwo ==
    /\ Init
    /\ script \in {"gate", "twice"}

SpecTwo == InitTwo /\ [][NextTwo]_vars

\* ------------------------------------------------- the YAML orchestrator
\* A value as it is written in a YAML spec or in a JSON signal file: a
\* string, an integer number, or a list.
Str(s) == [k |-> "str", v |-> s]
Num(n) == [k |-> "num", v |-> n]
List == [k |-> "list", v |-> 0]

\* yaml.v3 decoding into map[string]any: an integer scalar becomes an int
yamlValue(x) ==
    [t |-> CASE x.k = "str" -> "string"
             [] x.k = "num" -> "int"
             [] OTHER -> "[]interface {}",
     v |-> x.v]

\* encoding/json decoding into map[string]any: every number becomes a float64
jsonValue(x) ==
    [t |-> CASE x.k = "str" -> "string"
             [] x.k = "num" -> "float64"
             [] OTHER -> "[]interface {}",
     v |-> x.v]

\* a JSON object written to a signal file; JSON null decodes to a nil map
JsonObject(fields) ==
    [kind |-> "obj", fields |-> fields]

JsonNull == [kind |-> "null", fields |-> << >>]

jsonMap(signal) == [k \in DOMAIN signal.fields |-> jsonValue(signal.fields[k])]

\* one transition of a spec; when.nil: the transition has no when clause
Transition(from, to, when) == [from |-> from, to |-> to, when |-> when]

NoWhen == [nil |-> TRUE, m |-> << >>]

When(m) == [nil |-> FALSE, m |-> m]

yamlMap(when) == [k \in DOMAIN when.m |-> yamlValue(when.m[k])]

\* the settings block of a spec file: absent, or with or without
\* max_iterations
NoSettings == [present |-> FALSE, hasMax |-> FALSE, max_iterations |-> 0]

SettingsWithout == [present |-> TRUE, hasMax |-> FALSE, max_iterations |-> 0]

SettingsMax(n) == [present |-> TRUE, hasMax |-> TRUE, max_iterations |-> n]

ReviewIterations == 3   \* max_iterations of the review loop spec
ShortIterations == 2    \* max_iterations of the one-agent specs

DefaultMaxIterations == 10

\* the spec files, and with each what its agents may write as their signal
YamlSpecs ==
    [ review |->
        [start |-> "coder", agents |-> {"coder", "reviewer"},
         transitions |->
           << Transition("coder", "reviewer", NoWhen),
              Transition("reviewer", "END", When("status" :> Str("APPROVED"))),
              Transition("reviewer", "STUCK", When("status" :> Str("BLOCKED"))),
              Transition("reviewer", "coder", NoWhen) >>,
         settings |-> SettingsMax(ReviewIterations),
         outputs |-> { JsonObject("status" :> Str("APPROVED")),
                       JsonObject("status" :> Str("BLOCKED")),
                       JsonObject("status" :> Str("CHANGES_REQUESTED")),
                       JsonNull }],
      loop |->
        [start |-> "coder", agents |-> {"coder", "reviewer"},
         transitions |->
           << Transition("coder", "reviewer", NoWhen),
              Transition("reviewer", "coder", NoWhen) >>,
         settings |-> NoSettings,
         outputs |-> { JsonObject("status" :> Str("DONE")) }],
      strict |->
        [start |-> "coder", agents |-> {"coder"},
         transitions |->
           << Transition("coder", "END",
                         When("status" :> Str("DONE") @@ "tests" :> Str("PASS"))),
              Transition("coder", "coder", When("status" :> Str("DONE"))) >>,
         settings |-> SettingsMax(ShortIterations),
         outputs |-> { JsonObject("status" :> Str("DONE") @@ "tests" :> Str("PASS")),
                       JsonObject("status" :> Str("DONE") @@ "tests" :> Str("FAIL")),
                       JsonObject("status" :> Str("DONE")),
                       JsonObject("tests" :> Str("PASS")) }],
      score |->
        [start |-> "coder", agents |-> {"coder"},
         transitions |->
           << Transition("coder", "END", When("score" :> Num(3))),
              Transition("coder", "coder", NoWhen) >>,
         settings |-> SettingsMax(ShortIterations),
         outputs |-> { JsonObject("score" :> Num(3)),
                       JsonObject("score" :> Num(4)) }],
      list |->
        [start |-> "coder", agents |-> {"coder"},
         transitions |->
           << Transition("coder", "END", When("issues" :> List)),
              Transition("coder", "coder", NoWhen) >>,
         settings |-> SettingsMax(ShortIterations),
         outputs |-> { JsonObject("issues" :> List),
                       JsonObject("issues" :> Str("none")) }],
      bare |->
        [start |-> "coder", agents |-> {"coder"},
         transitions |-> << Transition("coder", "END", NoWhen) >>,
         settings |-> SettingsWithout,
         outputs |-> { JsonObject("status" :> Str("DONE")) }],
      ghost |->
        [start |-> "coder", agents |-> {"coder"},
         transitions |-> << Transition("coder", "tester", NoWhen) >>,
         settings |-> SettingsMax(ShortIterations),
         outputs |-> { JsonObject("status" :> Str("DONE")) }]
    ]

YamlSpecNames == DOMAIN YamlSpecs

YamlAgents == {"coder", "reviewer", "tester"}

\* spec.Parse: the settings default only when the whole block is absent; a
\* block without max_iterations leaves the int at zero
Parse(spec) ==
    [spec EXCEPT !.settings =
        IF ~spec.settings.present
          THEN SettingsMax(DefaultMaxIterations)
          ELSE SettingsMax(IF spec.settings.hasMax
                             THEN spec.settings.max_iterations ELSE 0)]

YamlSpec == Parse(YamlSpecs[orch.spec])

\* actual != expected on two interface values: "ne", "eq", or a run-time
\* panic when both hold the same uncomparable type
goCompare(actual, expected) ==
    IF actual.t # expected.t THEN "ne"
    ELSE IF actual.t = "[]interface {}" THEN "panic"
    ELSE IF actual.v = expected.v THEN "eq"
    ELSE "ne"

\* matchesCondition: the set of its possible outcomes (the keys of `when`
\* are visited in the random order of a Go map)
matchesCondition(when, signal) ==
    LET ne == { key \in DOMAIN when :
                  \/ key \notin DOMAIN signal
                  \/ goCompare(signal[key], when[key]) = "ne" }
        pn == { key \in DOMAIN when :
                  /\ key \in DOMAIN signal
                  /\ goCompare(signal[key], when[key]) = "panic" }
    IN (IF ne = {} /\ pn = {} THEN {"true"} ELSE {})
         \cup (IF ne # {} THEN {"false"} ELSE {})
         \cup (IF pn # {} THEN {"panic"} ELSE {})

\* evaluateTransitions from transition i on: the set of its possible results
RECURSIVE evaluateTransitions(_, _, _, _)
evaluateTransitions(T, i, from, signal) ==
    IF i > Len(T) THEN {"STUCK"}
    ELSE IF T[i].from # from THEN evaluateTransitions(T, i + 1, from, signal)
    ELSE IF T[i].when.nil THEN {T[i].to}
    ELSE LET o == matchesCondition(yamlMap(T[i].when), signal)
         IN (IF "true" \in o THEN {T[i].to} ELSE {})
              \cup (IF "panic" \in o THEN {"panic"} ELSE {})
              \cup (IF "false" \in o
                      THEN evaluateTransitions(T, i + 1, from, signal)
                      ELSE {})

completeRun(r) == [r EXCEPT !.status = RunStatusComplete, !.completedAt = TRUE]

\* Orchestrator.failRun: the reason is not stored
orchFailRun(r, reason) == [r EXCEPT !.status = RunStatusFailed, !.completedAt = TRUE]

stuckRun(r, reason) == [r EXCEPT !.status = RunStatusStuck, !.completedAt = TRUE]

\* (a variant of OverLimit that allows one iteration more)
OverLimitByOne(iteration, max) == iteration > max + 1

\* Execute line 88
OverLimit(iteration, max) == iteration > max

\* AppendContext reads the status out of the signal, when it is a string
statusText(signal) ==
    IF "status" \in DOMAIN signal.fields /\ signal.fields["status"].k = "str"
      THEN signal.fields["status"].v
      ELSE NoStr

\* StartRun: the Run as the run command hands it to Execute
InitOrch ==
    /\ orch \in { [NoOrch EXCEPT !.spec = n] : n \in YamlSpecNames }
    /\ script = ""
    /\ run = [NewRun EXCEPT !.currentAgent = YamlSpecs[orch.spec].start]
    /\ execs = {}
    /\ nextID = 1
    /\ files = [a \in YamlAgents |-> NoFile]
    /\ contextMd = << >>
    /\ runJson = WriteRunMetadata("", 0)
    /\ procs = {}
    /\ nextPid = 1
    /\ pc = "off"
    /\ ip = 1
    /\ err = FALSE
    /\ rt = NewRuntime(NewRun)
    /\ cur = NoFrame
    /\ epoch = 0
    /\ crashes = 0
    /\ humanWrites = 0
    /\ kills = 0
    /\ before = NewRun
    /\ edited = FALSE
    /\ ended = FALSE
    /\ spawned = {}
    /\ returned = {}
    /\ other = NoEngine

\* Execute lines 71-84: the Run is marked running
Execute ==
    /\ orch.pc = "off"
    /\ run.status = RunStatusPending
    /\ run' = UpdateRun([run EXCEPT !.status = RunStatusRunning])
    /\ orch' = [orch EXCEPT !.pc = "loop", !.currentAgent = YamlSpec.start]
    /\ UNCHANGED <<script, execs, nextID, files, contextMd, runJson, procs, nextPid,
                   engine, history, other>>

\* Execute lines 86-141: one turn of the loop up to the launch of the agent
ExecuteIterate ==
    /\ orch.pc = "loop"
    /\ LET iteration == orch.iteration + 1
           agent == orch.currentAgent
           exec == [NoExec EXCEPT !.id = nextID, !.agent = agent, !.seq = iteration,
                                  !.status = ExecStatusPending]
           x == [exec EXCEPT !.status = ExecStatusRunning]
       IN IF OverLimit(iteration, YamlSpec.settings.max_iterations)
            THEN /\ run' = UpdateRun(stuckRun(run, "max iterations exceeded"))
                 /\ orch' = [orch EXCEPT !.pc = "done", !.iteration = iteration]
                 /\ UNCHANGED <<execs, nextID, runJson>>
            ELSE /\ run' = UpdateRun([run EXCEPT !.currentAgent = agent])
                 /\ runJson' = WriteRunMetadata(agent, iteration)
                 /\ nextID' = nextID + 1
                 /\ IF agent \in YamlSpec.agents
                      THEN /\ execs' = UpdateExecution(
                                          CreateExecution(execs, exec, nextID), x)
                           /\ orch' = [orch EXCEPT !.pc = "launch",
                                                   !.iteration = iteration,
                                                   !.exec = x]
                      ELSE \* buildPrompt reads agentDef.OutputSchema of a nil
                           \* *AgentDef: the process panics
                           /\ execs' = CreateExecution(execs, exec, nextID)
                           /\ orch' = [orch EXCEPT !.pc = "panic",
                                                   !.iteration = iteration,
                                                   !.exec = exec]
    /\ UNCHANGED <<script, files, contextMd, procs, nextPid, engine, history, other>>

\* runClaudeAgent: cmd.Start succeeds, the PID is stored, Execute blocks
runClaudeAgent ==
    /\ orch.pc = "launch"
    /\ procs' = procs \cup {[pid |-> nextPid, pgid |-> EnginePgid,
                             agent |-> orch.currentAgent, eid |-> orch.exec.id,
                             wrote |-> FALSE]}
    /\ nextPid' = nextPid + 1
    /\ execs' = UpdateExecutionPID(execs, orch.exec.id, nextPid)
    /\ orch' = [orch EXCEPT !.pc = "agent", !.pid = nextPid]
    /\ UNCHANGED <<script, run, nextID, files, contextMd, runJson, engine, history,
                   other>>

\* runClaudeAgent returns an error: Execute lines 144-148
runClaudeAgentFail ==
    /\ orch.pc = "launch"
    /\ LET x == [orch.exec EXCEPT !.status = ExecStatusFailed]
       IN /\ execs' = UpdateExecution(execs, x)
          /\ orch' = [orch EXCEPT !.pc = "done", !.exec = x]
    /\ run' = UpdateRun(orchFailRun(run, "agent execution failed"))
    /\ UNCHANGED <<script, nextID, files, contextMd, runJson, procs, nextPid, engine,
                   history, other>>

\* the agent child writes its signal file (at most once)
YamlAgentWrite ==
    \E p \in procs :
      /\ orch.pc = "agent"
      /\ ~p.wrote
      /\ \E c \in YamlSpec.outputs : files' = WriteSignal(files, p.agent, c)
      /\ procs' = (procs \ {p}) \cup {[p EXCEPT !.wrote = TRUE]}
      /\ UNCHANGED <<script, run, execs, nextID, contextMd, runJson, nextPid,
                     engine, history, other, orch>>

\* the agent child exits: io.ReadAll and cmd.Wait return
YamlAgentExit ==
    \E p \in procs :
      /\ orch.pc = "agent"
      /\ orch.pid = p.pid
      /\ procs' = procs \ {p}
      /\ orch' = [orch EXCEPT !.pc = "exited"]
      /\ UNCHANGED <<durable, nextPid, engine, history, other>>

\* Execute lines 150-185: the signal is read and stored, the context
\* appended, the transitions evaluated
ExecuteEvaluate ==
    /\ orch.pc = "exited"
    /\ LET agent == orch.currentAgent IN
       IF ~ReadSignalOk(agent)
         THEN LET x == [orch.exec EXCEPT !.status = ExecStatusFailed]
              IN /\ execs' = UpdateExecution(execs, x)
                 /\ run' = UpdateRun(stuckRun(run, "failed to read agent signal"))
                 /\ orch' = [orch EXCEPT !.pc = "done", !.exec = x]
                 /\ UNCHANGED contextMd
         ELSE LET signal == ReadSignal(agent)
                  x == [orch.exec EXCEPT !.session = "sess", !.signal = signal,
                                         !.status = ExecStatusComplete]
              IN /\ execs' = UpdateExecution(execs, x)
                 /\ contextMd' = AppendContext(contextMd, agent,
                                     [status |-> statusText(signal)], x.id)
                 /\ \E nextAgent \in evaluateTransitions(YamlSpec.transitions, 1,
                                                         agent, jsonMap(signal)) :
                      IF nextAgent = "END"
                        THEN /\ run' = UpdateRun(completeRun(run))
                             /\ orch' = [orch EXCEPT !.pc = "done", !.exec = x]
                      ELSE IF nextAgent = "STUCK"
                        THEN /\ run' = UpdateRun(stuckRun(run, "agent signaled blocked"))
                             /\ orch' = [orch EXCEPT !.pc = "done", !.exec = x]
                      ELSE IF nextAgent = "panic"
                        THEN /\ orch' = [orch EXCEPT !.pc = "panic", !.exec = x]
                             /\ UNCHANGED run
                      ELSE /\ orch' = [orch EXCEPT
                                         !.pc = "loop", !.exec = x,
                                         !.previousAgents = Append(@, agent),
                                         !.currentAgent = nextAgent]
                           /\ UNCHANGED run
    /\ UNCHANGED <<script, nextID, files, runJson, procs, nextPid, engine, history,
                   other>>

\* the steps of the host process executing Execute
ExecuteStep ==
    \/ Execute
    \/ ExecuteIterate
    \/ runClaudeAgent
    \/ runClaudeAgentFail
    \/ ExecuteEvaluate

NextOrch ==
    \/ Execute
    \/ ExecuteIterate
    \/ runClaudeAgent
    \/ runClaudeAgentFail
    \/ YamlAgentWrite
    \/ YamlAgentExit
    \/ ExecuteEvaluate

\* a running host process takes its next step, and every agent process
\* exits in the end
SpecOrch ==
    /\ InitOrch
    /\ [][NextOrch]_vars
    /\ WF_vars(ExecuteStep)
    /\ WF_vars(YamlAgentExit)

TypeOK ==
    /\ script \in ScriptNames
    /\ pc \in {"off", "script", "fresh", "start", "launch", "agent", "exited",
               "cpread", "finalized", "post", "done"}

\* ============================================================ verification
\* the record the API call about to be made will look up
Looked == GetExecutionByCallIndex(rt.callIndex + 1)

\* the step enters luaRun / luaPause: the call index advances
Called == rt'.callIndex = rt.callIndex + 1

\* the values the step hands to the script
NewReturns == returned' \ returned

StoredSignal(ci) == GetExecutionByCallIndex(ci).signal

\* ------------------------------------------------------------------- C1
C1_Case ==
    /\ AtCall("run")
    /\ HasExecution(rt.callIndex + 1)
    /\ Looked.status = ExecStatusComplete
    /\ Looked.agent = Program[ip].agent

C1_Untouched ==
    /\ execs' = execs
    /\ contextMd' = contextMd
    /\ runJson' = runJson
    /\ spawned' = spawned
    /\ procs' = procs

C2_Memoized ==
    ~edited =>
      /\ \A a, b \in returned :
           ( /\ a.op = "run" /\ b.op = "run"
             /\ a.ci = b.ci
             /\ a.epoch < b.epoch
             /\ b.how = "cached" ) => b.val = a.val
      /\ \A s, t \in spawned :
           ~( /\ s.ci = t.ci
              /\ s.pid < t.pid
              /\ \E a \in returned : /\ a.epoch = s.epoch /\ a.ci = s.ci
                                     /\ a.how = "ran" /\ a.val.status # "ERROR" )

\* ------------------------------------------------------------------- C3
C3_Case ==
    /\ AtCall("run")
    /\ HasExecution(rt.callIndex + 1)
    /\ Looked.status = ExecStatusRunning
    /\ Looked.agent = Program[ip].agent
    /\ ReadSignalOk(Looked.agent)
    /\ ReadSignal(Looked.agent).status # "NEEDS_HUMAN"

C3_Recovers ==
    [][C3_Case /\ Called =>
         /\ execs' = (execs \ {Looked}) \cup
                       {[Looked EXCEPT !.status = ExecStatusComplete,
                                       !.signal = ReadSignal(Looked.agent)]}
         /\ nextID' = nextID
         /\ spawned' = spawned
         /\ procs' = procs
         /\ pc' = "finalized"
         /\ cur'.signal = ReadSignal(Looked.agent)]_vars

C3_Continues ==
    [][( /\ pc = "post"
         /\ cur.path = "recover"
         /\ cur.found = ExecStatusRunning
         /\ cur.exec.agent = cur.req
         /\ pc' \notin {"post", "off"} ) =>
         /\ \E e \in NewReturns : /\ e.ci = rt.callIndex
                                  /\ e.val = signalToTable(StoredSignal(rt.callIndex))
         /\ ip' = IF pc' = "script" THEN ip + 1 ELSE ip
         /\ execs' = execs
         /\ spawned' = spawned]_vars

C3_NotInvoked ==
    [](cur.path = "recover" =>
         ~\E s \in spawned : s.epoch = epoch /\ s.ci = rt.callIndex)

\* C3: when the engine died while the agent of a call was running and the
\* agent's signal file is on disk without status NEEDS_HUMAN, the resumed
\* run() call takes that same record from running to complete with the
\* on-disk signal, invokes no agent for that call index, and hands that
\* signal to the script, which continues after the call.
C3_CrashRecovery == C3_Recovers /\ C3_Continues /\ C3_NotInvoked

\* a signal handed to the script by recovering a record left running
C3_Witness ==
    \E e \in returned :
      /\ e.op = "run"
      /\ e.how = "recovered"
      /\ e.found = ExecStatusRunning
      /\ crashes >= 1
      /\ HasExecution(e.ci)
      /\ GetExecutionByCallIndex(e.ci).status = ExecStatusComplete
      /\ ~\E s \in spawned : s.epoch = e.epoch /\ s.ci = e.ci

\* ------------------------------------------------------------------- C4
C4_Waiting(e) ==
    /\ e.status = ExecStatusWaitingHuman
    /\ e.agent # Checkpoint
    /\ ReadSignal(e.agent).status = "NEEDS_HUMAN"

\* the record ends waiting_human, flags are set, nothing is returned
C4_Suspends ==
    [][( /\ pc = "finalized"
         /\ cur.path = "run"
         /\ cur.signal.status = "NEEDS_HUMAN"
         /\ pc' \notin {"finalized", "off"} ) =>
         /\ \E e \in execs' : e.id = cur.exec.id /\ e.status = ExecStatusWaitingHuman
         /\ rt'.waitingHuman
         /\ returned' = returned]_vars

\* the engine execution ends with the Run waiting_human and its reason
C4_RunWaits ==
    [][( /\ pc = "done"
         /\ rt.waitingHuman
         /\ ~rt.isStuck
         /\ pc' = "off"
         /\ crashes' = crashes ) =>
         /\ run'.status = RunStatusWaitingHuman
         /\ run'.waitingReason = rt.waitingReason
         /\ run'.waitingReason # ""]_vars

\* while the record waits on an unchanged signal no later call is recorded
C4_NoLaterCall ==
    [][\A e \in execs : C4_Waiting(e) =>
         \A f \in execs' : f.callIndex > e.callIndex =>
            \E g \in execs : g.id = f.id]_vars

\* C4: when the signal file of a run() agent has status NEEDS_HUMAN, the
\* record ends waiting_human, the Run ends waiting_human with the reason,
\* run() returns nothing to the script, and no record with a higher call
\* index is created while the signal stays NEEDS_HUMAN.
C4_Suspension == C4_Suspends /\ C4_RunWaits /\ C4_NoLaterCall

\* ------------------------------------------------------------------- C5
C5_Case ==
    /\ AtCall("run")
    /\ HasExecution(rt.callIndex + 1)
    /\ Looked.status = ExecStatusWaitingHuman
    /\ Looked.agent = Program[ip].agent
    /\ ReadSignalOk(Looked.agent)
    /\ ReadSignal(Looked.agent).status # "NEEDS_HUMAN"

C5_Completes ==
    [][C5_Case /\ Called =>
         /\ execs' = (execs \ {Looked}) \cup
                       {[Looked EXCEPT !.status = ExecStatusComplete,
                                       !.signal = ReadSignal(Looked.agent)]}
         /\ nextID' = nextID
         /\ spawned' = spawned
         /\ pc' = "finalized"
         /\ cur'.signal = ReadSignal(Looked.agent)]_vars

C5_Returns ==
    [][( /\ pc = "post"
         /\ cur.path = "recover"
         /\ cur.found = ExecStatusWaitingHuman
         /\ cur.exec.agent = cur.req
         /\ pc' \notin {"post", "off"} ) =>
         /\ \E e \in NewReturns : /\ e.ci = rt.callIndex
                                  /\ e.val = signalToTable(cur.signal)
                                  /\ e.val = signalToTable(StoredSignal(rt.callIndex))
         /\ execs' = execs
         /\ spawned' = spawned]_vars

C5_Resumed ==
    \E e \in returned :
      /\ e.epoch = epoch
      /\ e.op = "run"
      /\ e.how = "recovered"
      /\ e.found = ExecStatusWaitingHuman

C5_RunCompletes ==
    [][( /\ pc = "done"
         /\ C5_Resumed
         /\ ~err /\ ~rt.isStuck /\ ~rt.waitingHuman
         /\ pc' = "off"
         /\ crashes' = crashes ) =>
         /\ run'.status = RunStatusComplete
         /\ run'.completedAt]_vars

\* C5: when the signal file of the waiting record of a run() call has been
\* overwritten with a parseable signal whose status is not NEEDS_HUMAN, the
\* resumed call completes that same record with the new signal without
\* creating a record or invoking an agent, returns the new signal to the
\* script, and the Run ends complete when the rest of the script finishes
\* without error, stuck() or a further suspension.
C5_ResumeAfterHelp == C5_Completes /\ C5_Returns /\ C5_RunCompletes

\* the human rewrote the signal, the resumed call returned it, the Run is complete
C5_Witness ==
    /\ run.status = RunStatusComplete
    /\ humanWrites >= 1
    /\ \E e \in returned :
         /\ e.op = "run"
         /\ e.how = "recovered"
         /\ e.found = ExecStatusWaitingHuman
         /\ e.val.status = "DONE"
         /\ GetExecutionByCallIndex(e.ci).status = ExecStatusComplete

C7_Case ==
    /\ AtCall("run")
    /\ HasExecution(rt.callIndex + 1)
    /\ Looked.status = ExecStatusComplete
    /\ Looked.agent # Program[ip].agent

C7_Detects ==
    [][C7_Case /\ Called =>
         /\ [ci |-> rt.callIndex + 1, expected |-> Looked.agent,
             got |-> Program[ip].agent] \in rt'.logs
         /\ execs' = {e \in execs : e.callIndex < rt.callIndex + 1}
         /\ pc' = "fresh"
         /\ cur'.agent = Program[ip].agent
         /\ ~err'
         /\ returned' = returned]_vars

C7_Fresh ==
    [](\A w \in rt.logs :
         /\ \A e \in execs : e.callIndex = w.ci => e.agent = w.got
         /\ \A e \in returned :
              (e.epoch = epoch /\ e.ci >= w.ci) => (e.how = "ran" /\ e.found = ""))

\* C7: a run() call that finds a complete record of another agent logs a
\* warning, removes the records of that call index and above, and invokes
\* the requested agent on a fresh record; the following calls run fresh
\* too, and the mismatch is not raised to the script.
C7_Divergence == C7_Detects /\ C7_Fresh

\* x, y, z ran; after the edit call 1 came from the log, calls 2 (q) and 3 ran fresh
C7_Witness ==
    /\ script = "edit"
    /\ epoch = 2
    /\ [ci |-> 2, expected |-> "y", got |-> "q"] \in rt.logs
    /\ \E s \in spawned : s.epoch = 1 /\ s.ci = 3 /\ s.agent = "z"
    /\ \E e \in returned : e.epoch = 2 /\ e.ci = 1 /\ e.how = "cached"
    /\ \E s \in spawned : s.epoch = 2 /\ s.ci = 2 /\ s.agent = "q"
    /\ \E e \in returned : e.epoch = 2 /\ e.ci = 3 /\ e.how = "ran"
    /\ ~err

\* ------------------------------------------------------------------- C8
C8_Fails ==
    [][( /\ pc = "launch"
         /\ cur.path = "run"
         /\ pc' \notin {"launch", "agent", "off"} ) =>
         /\ pc' = "post"
         /\ cur'.signal.status = "ERROR"
         /\ cur'.signal.reason # NoStr
         /\ \E e \in execs' : e.id = cur.exec.id /\ e.status = ExecStatusFailed
         /\ run' = run
         /\ ~err']_vars

C8_Returns ==
    [][( /\ pc = "post"
         /\ cur.exec.status = ExecStatusFailed
         /\ cur.signal.reason = "agent execution failed"
         /\ ~(cur.via = "exist" /\ cur.exec.agent # cur.req)
         /\ pc' \notin {"post", "off"} ) =>
         /\ \E e \in NewReturns : /\ e.ci = rt.callIndex
                                  /\ e.val.status = "ERROR"
                                  /\ e.val.reason # NoStr
         /\ GetExecutionByCallIndex(rt.callIndex).status = ExecStatusFailed
         /\ execs' = execs
         /\ run' = run]_vars

\* C8: when the agent process of a run() call cannot be launched, the
\* record becomes failed, run() returns a table with status ERROR and a
\* reason, and the Run is not moved to failed.
C8_LaunchFailure == C8_Fails /\ C8_Returns

\* the script holds the ERROR table of a failed launch and the Run is running
C8_Witness ==
    /\ pc = "script"
    /\ run.status = RunStatusRunning
    /\ \E e \in returned :
         /\ e.epoch = epoch
         /\ e.val.status = "ERROR"
         /\ e.val.reason = "agent execution failed"
         /\ GetExecutionByCallIndex(e.ci).status = ExecStatusFailed

\* ------------------------------------------------------------------- C9
\* C9: when the agent of a run() call exits without having written its
\* signal file during that invocation (what the workspace holds, if
\* anything, was left by another Execution), the record becomes failed and
\* run() gets the table with status ERROR.
C9_NoSignal ==
    [][( /\ pc = "exited"
         /\ cur.path = "run"
         /\ ~cur.wrote
         /\ ReadSignal(cur.agent).by # cur.exec.id
         /\ pc' \notin {"exited", "off"} ) =>
         /\ pc' = "post"
         /\ cur'.signal.status = "ERROR"
         /\ \E e \in execs' : e.id = cur.exec.id /\ e.status = ExecStatusFailed]_vars

\* ------------------------------------------------------------------ C10
\* C10: once the Run has entered complete or stuck, no record is appended
\* to its executions any more, also when the Run is resumed afterwards
\* (stated for a script that was never edited).
C10_MonotoneTermination ==
    [][(ended /\ ~edited) => nextID' = nextID]_vars

\* ------------------------------------------------------------------ C11
\* the engine execution in progress is a resume of a Run that was complete
C11_Case ==
    /\ pc # "off"
    /\ epoch >= 2
    /\ before.status = RunStatusComplete
    /\ ~edited

\* C11: a resume of a Run in status complete (its script unedited) creates
\* no record and invokes no agent, and when the resumed execution ends the
\* Run's row is what it was before the resume.
C11_ResumeOfCompleteIsNoOp ==
    [][(C11_Case /\ kills' = kills) =>
         /\ nextID' = nextID
         /\ spawned' = spawned
         /\ (pc' = "off" /\ crashes' = crashes) => run' = before]_vars

\* ------------------------------------------------------------------ C12
\* C12: at every moment at most one agent child process started for the
\* Run is alive, whatever runs, engine crashes and resumes happened.
C12_OneLiveAgent == Cardinality(procs) <= 1

\* ------------------------------------------------------------------ C13
\* the step is a kill operation that finds a running record with a PID
C13_Kill ==
    /\ kills' = kills + 1
    /\ HasRunningExecution
    /\ GetRunningExecutionForRun.pid # 0

\* C13: the agent child of the running record leads its own process group,
\* so that a kill operation, which signals the group named by the record's
\* PID, leaves no process of that agent alive.
C13_Containment ==
    [][C13_Kill =>
         /\ \A p \in procs : p.pid = GetRunningExecutionForRun.pid => p.pgid = p.pid
         /\ ~\E p \in procs' : p.pid = GetRunningExecutionForRun.pid]_vars

\* ------------------------------------------------------------------ C14
\* C14: in every state the Run has a completion timestamp exactly when its
\* status is complete, failed or stuck.
C14_CompletionTimestamp ==
    (run.status \in {RunStatusComplete, RunStatusFailed, RunStatusStuck})
       <=> run.completedAt

\* ------------------------------------------------------------------ C15
\* C15: whenever the Run is in status waiting_human, its waiting reason and
\* its waiting session id are both non-empty.
C15_WaitingFields ==
    run.status = RunStatusWaitingHuman =>
      (run.waitingReason # "" /\ run.waitingSessionID # "")

\* ------------------------------------------------------------------ C16
\* C16: in every state where the Run is running, at most one of its records
\* is running or waiting_human.
C16_OneActiveExecution ==
    run.status = RunStatusRunning =>
      Cardinality({e \in execs : NeedsRecovery(e)}) <= 1

\* ------------------------------------------------------------------ C17
\* C17: in every state a record in status complete has a stored signal that
\* is not null and holds a status string.
C17_CompleteHasStatus ==
    \A e \in execs :
      e.status = ExecStatusComplete =>
        (e.signal.kind = "obj" /\ e.signal.status # NoStr)

\* ------------------------------------------------------------------ C18
\* C18: in every state a record in status waiting_human has a stored signal
\* whose status is NEEDS_HUMAN.
C18_WaitingHasNeedsHuman ==
    \A e \in execs :
      e.status = ExecStatusWaitingHuman => e.signal.status = "NEEDS_HUMAN"

\* ------------------------------------------------------------------ C19
\* the pause() of this execution handed the decision STOP to the script
C19_Stopped(e) ==
    /\ e \in returned
    /\ e.epoch = epoch
    /\ e.op = "pause"
    /\ e.val.status = "STOP"

C19_EndsStuck ==
    [][\A e \in returned :
         ( /\ script = "gate"
           /\ C19_Stopped(e)
           /\ pc = "done"
           /\ pc' = "off"
           /\ crashes' = crashes ) =>
           /\ run'.status = RunStatusStuck
           /\ run'.error = e.val.reason
           /\ run'.completedAt
           /\ ~\E x \in execs' : x.agent = "y"]_vars

C19_NoDeployer ==
    [](\A e \in returned :
         (script = "gate" /\ C19_Stopped(e)) =>
            /\ ~e.result.continue
            /\ ~\E x \in execs : x.agent = "y"
            /\ ~\E t \in spawned : t.epoch = epoch /\ t.agent = "y")

\* C19: for the script pause(m); stuck(ok.reason) unless ok.continue; run(y),
\* once the checkpoint signal holds status STOP with reason r and the Run is
\* resumed, the execution ends with the Run stuck, its error equal to r, no
\* record of agent y exists and that execution invoked no agent y.
C19_CheckpointStop == C19_EndsStuck /\ C19_NoDeployer

\* the human decided STOP at the checkpoint, the resumed Run ended stuck
C19_Witness ==
    /\ script = "gate"
    /\ pc = "off"
    /\ epoch >= 2
    /\ humanWrites >= 1
    /\ run.status = RunStatusStuck
    /\ run.error = "window"
    /\ \E e \in returned :
         /\ e.epoch = epoch /\ e.op = "pause" /\ e.how = "recovered"
         /\ e.val = Sig("obj", "STOP", "window", 0)
    /\ \E x \in execs : x.agent = Checkpoint /\ x.status = ExecStatusComplete
    /\ ~\E x \in execs : x.agent = "y"

\* ------------------------------------------------------------------ C20
\* the step ends the runCheckpoint of a pause() call that found no record,
\* and _checkpoint.json was not written by a checkpoint agent
C20_Case ==
    /\ pc \in {"exited", "cpread"}
    /\ cur.path = "checkpoint"
    /\ ReadSignal(Checkpoint).by = 0
    /\ pc' \notin {"exited", "cpread", "off"}

\* C20: every pause() call that reaches a call index with no record
\* suspends the workflow: its record ends waiting_human, the suspension is
\* flagged for the Run, and nothing is returned to the script by that call;
\* this holds for each pause() of a script with several pause() calls.
C20_PauseSuspends ==
    [][C20_Case =>
         /\ \E e \in execs' : e.id = cur.exec.id /\ e.status = ExecStatusWaitingHuman
         /\ rt'.waitingHuman
         /\ returned' = returned]_vars

\* ------------------------------------------------------------------ C21
\* the step in which the script calls stuck(): the reason is the one of the
\* pause result just returned, or the default when that has none
C21_StuckCall ==
    [][(rt'.isStuck /\ ~rt.isStuck) =>
         /\ pc' = "done"
         /\ \E e \in NewReturns :
              rt'.stuckReason = IF e.result.reason = NoStr THEN "workflow stuck"
                                ELSE e.result.reason]_vars

C21_EndsStuck ==
    [][( /\ pc = "done"
         /\ rt.isStuck
         /\ pc' = "off"
         /\ crashes' = crashes ) =>
         /\ run'.status = RunStatusStuck
         /\ run'.error = rt.stuckReason
         /\ run'.error # ""
         /\ run'.completedAt]_vars

\* C21: a script that calls stuck(reason) ends the Run in status stuck with
\* the Run's error equal to reason, or to the default reason when none is
\* given, and with the completion timestamp set.
C21_Stuck == C21_StuckCall /\ C21_EndsStuck

\* a Run ended by stuck() without a reason
C21_Witness ==
    /\ pc = "off"
    /\ kills = 0
    /\ run.status = RunStatusStuck
    /\ run.error = "workflow stuck"
    /\ run.completedAt
    /\ \E e \in returned :
         /\ e.epoch = epoch /\ e.op = "pause"
         /\ ~e.result.continue /\ e.result.reason = NoStr

\* ------------------------------------------------------------------ C22
\* the error that unwound the workflow function is the suspension of the
\* call in progress
C22_Suspended ==
    /\ rt.waitingHuman
    /\ \E e \in execs : e.callIndex = rt.callIndex /\ e.id = rt.waitingExecID

\* C22: when the workflow function ends by an error that is neither the
\* unwinding of stuck() nor the suspension of the call in progress, the
\* Run ends in status failed with an error message stored.
C22_ScriptError ==
    [][( /\ pc = "done"
         /\ err
         /\ ~rt.isStuck
         /\ ~C22_Suspended
         /\ pc' = "off"
         /\ crashes' = crashes ) =>
         /\ run'.status = RunStatusFailed
         /\ run'.error # ""
         /\ run'.completedAt]_vars

\* ------------------------------------------------------------------ C23
\* when run() hands the signal of a complete record to the script, the
\* section of that record is in context.md
C23_AppendedBeforeReturn ==
    [][\A r \in NewReturns :
         \A e \in execs' :
           ( /\ r.op = "run"
             /\ e.callIndex = r.ci
             /\ e.status = ExecStatusComplete
             /\ e.signal.kind = "obj" ) =>
           \E i \in DOMAIN contextMd' : contextMd'[i].eid = e.id]_vars

\* the sections of the records of the Run follow the call indexes
C23_InCallOrder ==
    [](\A i, j \in DOMAIN contextMd :
         \A a, b \in execs :
           (i < j /\ a.id = contextMd[i].eid /\ b.id = contextMd[j].eid) =>
              a.callIndex <= b.callIndex)

\* C23: for every record that run() finalises as complete its section is
\* appended to context.md after the record is stored and before the script
\* gets the signal, so that the sections of any two records of the Run are
\* in the order of their call indexes.
C23_ContextOrder == C23_AppendedBeforeReturn /\ C23_InCallOrder

\* ------------------------------------------------------------------ C24
\* the sections of context.md appended for the record
Sections(e) == { i \in DOMAIN contextMd : contextMd[i].eid = e.id }

\* C24: whenever no engine process is at work, every record in status
\* complete has exactly one section in context.md, and every section of
\* context.md belongs to a record of the Run.
C24_OneSectionPerComplete ==
    pc = "off" =>
      /\ \A e \in execs :
           e.status = ExecStatusComplete => Cardinality(Sections(e)) = 1
      /\ \A i \in DOMAIN contextMd : \E e \in execs : e.id = contextMd[i].eid

\* ------------------------------------------------------------------ C25
\* C25: every table run() hands to the script for a record in status
\* complete carries _session_id, holding the session of that record,
\* whichever way the call was answered (fresh, recovered, from the log).
\* (Stated for records that store a JSON object.)
C25_SessionInjected ==
    [][\A r \in NewReturns : \A e \in execs' :
         (/\ r.op = "run"
          /\ e.callIndex = r.ci
          /\ e.status = ExecStatusComplete
          /\ e.signal.kind = "obj")
           => r.val.sid = e.session /\ r.val.sid # NoStr]_vars

\* ------------------------------------------------------------------ C26
\* C26: the table pause() hands to the script is computed from the signal
\* of the record at the call index: continue is true exactly when the
\* signal's status is "CONTINUE", reason and message are the signal's when
\* it has them as strings, absent otherwise.
C26_PauseResult ==
    [][\A r \in NewReturns : r.op = "pause" =>
         \E e \in execs' :
            /\ e.callIndex = r.ci
            /\ e.status = ExecStatusComplete
            /\ r.result.continue = (e.signal.status = "CONTINUE")
            /\ r.result.reason = e.signal.reason
            /\ r.result.message = e.signal.message]_vars

\* pause() has returned continue = true with the human's note, and, at
\* another call, continue = false with the reason
C26_Witness ==
    /\ \E r \in returned :
          /\ r.op = "pause" /\ r.epoch = epoch
          /\ r.result.continue /\ r.result.message = "note"
    /\ \E r \in returned :
          /\ r.op = "pause" /\ r.epoch = epoch
          /\ ~r.result.continue /\ r.result.reason = "window"

\* ------------------------------------------------------------------ C27
\* the arrows of the Execution state machine
C27_Arrows ==
    { <<ExecStatusPending, ExecStatusRunning>>,
      <<ExecStatusRunning, ExecStatusComplete>>,
      <<ExecStatusRunning, ExecStatusWaitingHuman>>,
      <<ExecStatusRunning, ExecStatusFailed>>,
      <<ExecStatusWaitingHuman, ExecStatusComplete>>,
      <<ExecStatusFailed, ExecStatusRunning>> }

\* C27: every change of the status of a record follows an arrow of the
\* Execution state machine; in particular no record leaves complete.
\* (Stated for the executions in which the run is not killed.)
C27_StateMachine ==
    [][\A a \in execs : \A b \in execs' :
         (a.id = b.id /\ a.status # b.status /\ kills' = 0)
            => <<a.status, b.status>> \in C27_Arrows]_vars

\* ------------------------------------------------------------------ C28
\* run(agent) is entered and the record at its call index names another
\* agent
C28_Case ==
    /\ AtCall("run")
    /\ Called
    /\ HasExecution(rt.callIndex + 1)
    /\ Looked.agent # Program[ip].agent

\* C28: when run(agent) finds at its call index a record of another agent,
\* in whatever status, the first thing it does is the divergence: the
\* records from that call index on are invalidated and the requested agent
\* goes to a fresh record; the recorded agent is neither invoked nor
\* recovered, and the record found is not used for the requested agent.
C28_Divergence ==
    [][C28_Case =>
         /\ execs' = InvalidateExecutionsAfterIndex(execs, rt.callIndex)
         /\ pc' = "fresh"
         /\ cur'.agent = Program[ip].agent
         /\ cur'.exec = NoExec
         /\ ~rt'.waitingHuman]_vars

\* ------------------------------------------------------------------ C29
\* run(agent) is entered and the record at its call index is a failed
\* record of that agent
C29_Case ==
    /\ AtCall("run")
    /\ Called
    /\ HasExecution(rt.callIndex + 1)
    /\ Looked.status = ExecStatusFailed
    /\ Looked.agent = Program[ip].agent

\* the engine is inside the retry of a failed record
C29_InRetry ==
    /\ cur.via = "exist"
    /\ cur.found = ExecStatusFailed
    /\ cur.exec.agent = cur.req

\* the agent processes launched in this execution for the call
C29_Invocations(ci) == { t \in spawned' : t.epoch = epoch /\ t.ci = ci }

\* the call takes the failed record itself
C29_SameRecord ==
    [][C29_Case =>
         /\ execs' = execs
         /\ nextID' = nextID
         /\ spawned' = spawned
         /\ pc' = "start"
         /\ cur'.exec = Looked
         /\ cur'.agent = Program[ip].agent]_vars

\* the record goes failed -> running
C29_FailedToRunning ==
    [][(pc = "start" /\ C29_InRetry /\ pc' = "launch") =>
         /\ GetExecutionByCallIndex(rt.callIndex).status = ExecStatusFailed
         /\ execs' = UpdateExecution(execs,
                       [cur.exec EXCEPT !.status = ExecStatusRunning])
         /\ Cardinality(execs') = Cardinality(execs)]_vars

\* when the call returns, the record at the call index is still the one
\* found, and the agent was launched once, on that record (not at all when
\* the launch failed again)
C29_InvokedOnce ==
    [][\A r \in NewReturns :
         (r.op = "run" /\ r.found = ExecStatusFailed /\ C29_InRetry) =>
            /\ \A e \in execs' : e.callIndex = r.ci => e.id = cur.exec.id
            /\ \A t \in C29_Invocations(r.ci) :
                  t.eid = cur.exec.id /\ t.agent = cur.req
            /\ Cardinality(C29_Invocations(r.ci)) =
                  IF r.val = ErrorSignal("agent execution failed") THEN 0 ELSE 1]_vars

\* C29: when run() finds a failed record of the requested agent at its call
\* index it retries on that record: no record is appended, the record goes
\* failed -> running, and the agent is invoked once for the retry.
C29_Retry == C29_SameRecord /\ C29_FailedToRunning /\ C29_InvokedOnce

\* a retried call has returned the signal of the agent's second attempt
C29_Witness ==
    /\ \E r \in returned :
          /\ r.op = "run" /\ r.epoch = epoch /\ r.found = ExecStatusFailed
          /\ r.how = "ran" /\ r.val.status = "DONE"
          /\ \E e \in execs :
                /\ e.callIndex = r.ci /\ e.status = ExecStatusComplete
                /\ e.agent = Program[r.ci].agent
          /\ \E t \in spawned : t.epoch = epoch /\ t.ci = r.ci
    /\ ~edited

\* ------------------------------------------------------------------ C30
\* a resumed run(agent) finds the agent's record running or waiting_human
\* and the agent's signal file says NEEDS_HUMAN
C30_Case ==
    /\ AtCall("run")
    /\ Called
    /\ HasExecution(rt.callIndex + 1)
    /\ NeedsRecovery(Looked)
    /\ Looked.agent = Program[ip].agent
    /\ ReadSignalOk(Looked.agent)
    /\ ReadSignal(Looked.agent).status = "NEEDS_HUMAN"

\* C30: on resume, when the record at the call index is running or
\* waiting_human and the agent's signal file has status NEEDS_HUMAN, the
\* call re-enters the waiting state: no agent is invoked, no record is
\* appended, the Execution is waiting_human and the runtime is suspended
\* on it, so that the Run ends in waiting_human.
C30_ReentersWaiting ==
    [][C30_Case =>
         /\ spawned' = spawned
         /\ procs' = procs
         /\ { e.id : e \in execs' } = { e.id : e \in execs }
         /\ rt'.waitingHuman
         /\ rt'.waitingExecID = Looked.id
         /\ \E e \in execs' :
               e.id = Looked.id /\ e.status = ExecStatusWaitingHuman]_vars

\* ------------------------------------------------------------------ C31
\* C31: run() never hands the script a signal whose status is NEEDS_HUMAN,
\* and whenever no engine process is at work no record in status complete
\* stores a NEEDS_HUMAN signal.
C31_NeedsHumanNotObserved ==
    /\ \A r \in returned : r.op = "run" => r.val.status # "NEEDS_HUMAN"
    /\ pc = "off" =>
         \A e \in execs :
            e.status = ExecStatusComplete => e.signal.status # "NEEDS_HUMAN"

\* ------------------------------------------------------------------ C32
\* C32: once the runtime has set the stuck flag or the human-suspension
\* flag, the script execution invokes no agent and appends no Execution
\* record any more.
C32_UnwindIsFinal ==
    [][(rt.isStuck \/ rt.waitingHuman) =>
         /\ spawned' = spawned
         /\ \A f \in execs' : \E g \in execs : g.id = f.id]_vars

\* ------------------------------------------------------------------ C33
\* every child is spawned in the step that stores its PID in its record
C33_StoredAtSpawn ==
    [][\A t \in spawned' \ spawned :
         /\ t.pid # 0
         /\ \E e \in execs' : e.id = t.eid /\ e.pid = t.pid
         /\ pc' = "agent"]_vars

\* while the engine is blocked on an agent, the record of the invocation
\* carries the PID of that agent's process; the record is running unless a
\* kill operation has marked it failed meanwhile
C33_BlockedHasPid ==
    pc = "agent" =>
       /\ cur.pid # 0
       /\ \E p \in procs : p.pid = cur.pid /\ p.eid = cur.exec.id
       /\ \E e \in execs :
             /\ e.id = cur.exec.id
             /\ e.pid = cur.pid
             /\ e.status = ExecStatusRunning \/ kills > 0

\* C33: for every agent invocation the child's PID is written to the
\* Execution record after the spawn and before the engine blocks on the
\* child's output: whenever the engine is blocked on a live agent, the
\* record carries that agent's PID.
C33_PidPersisted == C33_StoredAtSpawn /\ []C33_BlockedHasPid

\* the engine is blocked on the agent of a record that was run before (a
\* retry or a re-run); the record carries the PID of the new process
C33_Witness ==
    /\ pc = "agent"
    /\ cur.via = "exist"
    /\ \E p \in procs : p.pid = cur.pid /\ p.pid > 1
    /\ \E e \in execs :
          e.id = cur.exec.id /\ e.pid = cur.pid /\ e.status = ExecStatusRunning

\* ------------------------------------------------------------------ C34
\* pause() is entered and the record at its call index is a _checkpoint
\* record left pending, running or failed
C34_Case ==
    /\ AtCall("pause")
    /\ Called
    /\ HasExecution(rt.callIndex + 1)
    /\ Looked.agent = Checkpoint
    /\ Looked.status \in {ExecStatusPending, ExecStatusRunning, ExecStatusFailed}

\* the call takes the record found for the checkpoint it runs
C34_TakesRecord ==
    [][C34_Case =>
         /\ execs' = execs
         /\ nextID' = nextID
         /\ cur'.exec = Looked
         /\ cur'.agent = Checkpoint]_vars

\* the Run has one Execution per call index
C34_OnePerIndex ==
    \A a, b \in execs : a.callIndex = b.callIndex => a.id = b.id

\* C34: when pause() finds at its call index a _checkpoint record left
\* pending, running or failed, it runs the checkpoint on that record, and
\* the Run keeps exactly one Execution for the call index.
C34_ReusesRecord == C34_TakesRecord /\ []C34_OnePerIndex

\* ------------------------------------------------------------------ C35
\* pause() is entered and the record at its call index belongs to an agent
\* other than _checkpoint
C35_Case ==
    /\ AtCall("pause")
    /\ Called
    /\ HasExecution(rt.callIndex + 1)
    /\ Looked.agent # Checkpoint

\* C35: when the record at pause()'s call index belongs to another agent,
\* pause() treats it as a divergence: the records from that index on are
\* invalidated, a fresh checkpoint is created, and the stored signal of the
\* other agent is not turned into a pause result.
C35_PauseDivergence ==
    [][C35_Case =>
         /\ execs' = InvalidateExecutionsAfterIndex(execs, rt.callIndex)
         /\ pc' = "fresh"
         /\ cur'.agent = Checkpoint
         /\ returned' = returned]_vars

\* ------------------------------------------------------------------ C36
\* C36: the signal stored in a record was written during that record's own
\* agent invocation or by the human, never by the agent of another
\* Execution of the Run.
C36_OwnSignal ==
    \A e \in execs : e.signal.by \in {0, e.id}

\* ------------------------------------------------------------------ C37
\* a kill operation has marked the Run failed and the engine process that
\* was executing the script is still alive (an engine that starts sets the
\* Run running, so a failed Run with a live engine was killed under it)
C37_Case == pc # "off" /\ run.status = RunStatusFailed

\* C37: after a kill operation has marked the Run failed while an engine
\* process is executing its script, the Run stays failed and that engine
\* starts no further agent and appends no further Execution.
C37_KillIsFinal ==
    [][C37_Case =>
         /\ run'.status = RunStatusFailed
         /\ spawned' = spawned
         /\ nextID' = nextID]_vars

\* C38: when two engine processes execute the same Run at the same time, for
\* every call index at most one of them invokes the agent, and at most one
\* Execution record exists for that call index.  (Under SpecTwo the first
\* process is engine execution 1 and the one started beside it is 2.)
C38_OneInvoker ==
    \A s, t \in spawned : s.ci = t.ci => s.epoch = t.epoch

C38_OneRecord ==
    \A a, b \in execs : a.callIndex = b.callIndex => a = b

C38_Exclusive == C38_OneInvoker /\ C38_OneRecord

\* the stronger symptom: both processes are blocked on a live agent child
\* of their own for the same call index and the same record
C38_BothBlocked ==
    /\ pc = "agent" /\ other.pc = "agent"
    /\ rt.callIndex = other.rt.callIndex
    /\ cur.exec.id = other.cur.exec.id
    /\ cur.pid # other.cur.pid
    /\ \E p, q \in procs : p.pid = cur.pid /\ q.pid = other.cur.pid

\* C39: in the YAML orchestrator the next agent after an Execution is the
\* target of the first transition, in spec order, whose from is the current
\* agent and whose when clause is absent or has every key equal to the value
\* the signal holds for it (the value as written: the number 3 of the spec
\* file is the number 3 of the signal file); END completes the Run, and when
\* no transition matches (or the target is STUCK) the Run ends in stuck.
C39_SameValue(a, b) == a.k = b.k /\ a.v = b.v

C39_Matches(t, signal) ==
    \/ t.when.nil
    \/ \A key \in DOMAIN t.when.m :
         /\ key \in DOMAIN signal.fields
         /\ C39_SameValue(signal.fields[key], t.when.m[key])

C39_Target(T, from, signal) ==
    LET I == { i \in 1..Len(T) : T[i].from = from /\ C39_Matches(T[i], signal) }
    IN IF I = {} THEN "STUCK"
       ELSE T[CHOOSE i \in I : \A j \in I : i <= j].to

C39_Case == orch.pc = "exited" /\ ReadSignalOk(orch.currentAgent)

C39_FirstMatchWins ==
    [][C39_Case /\ orch'.pc # "exited" =>
         LET to == C39_Target(YamlSpec.transitions, orch.currentAgent,
                              ReadSignal(orch.currentAgent))
         IN IF to = "STUCK"
              THEN orch'.pc = "done" /\ run'.status = RunStatusStuck
            ELSE IF to = "END"
              THEN orch'.pc = "done" /\ run'.status = RunStatusComplete
            ELSE /\ orch'.pc = "loop"
                 /\ orch'.currentAgent = to
                 /\ run'.status = RunStatusRunning]_vars

\* C40: in the YAML orchestrator Execute comes to an end when every agent
\* process exits; it creates at most max_iterations Executions for the Run,
\* 10 when the spec file does not set the value; and when the limit is
\* exceeded without END having been reached the Run ends in stuck.
C40_Limit ==
    LET settings == YamlSpecs[orch.spec].settings
    IN IF settings.present /\ settings.hasMax
         THEN settings.max_iterations ELSE 10

C40_AtMostLimit ==
    /\ Cardinality(execs) <= C40_Limit
    /\ \A e \in execs : e.seq \in 1..C40_Limit
    /\ \A a, b \in execs : a.seq = b.seq => a = b

C40_Exceeded ==
    [][orch.pc = "loop" /\ orch'.iteration > C40_Limit =>
         /\ orch'.pc = "done"
         /\ run'.status = RunStatusStuck /\ run'.completedAt
         /\ execs' = execs]_vars

C40_Ends == <>(orch.pc \in {"done", "panic"})

C40_Terminates == []C40_AtMostLimit /\ C40_Exceeded /\ C40_Ends

\* the default limit was reached: ten Executions and the Run stuck
C40_Witness ==
    /\ orch.spec = "loop" /\ orch.pc = "done"
    /\ Cardinality(execs) = 10
    /\ orch.iteration = 11
    /\ run.status = RunStatusStuck

====
